---- MODULE Spec2Model ----
(***************************************************************************)
(* FMS squat analysis API (api/index.py).                                  *)
(*                                                                         *)
(* One request is handled synchronously: the handler (analyze or           *)
(* analyze_frame) validates the JSON body, analyze_squat_video builds the  *)
(* prompt, calls the external model once, scrapes a JSON object out of the *)
(* reply text, backfills and reconciles its fields, and the handler turns  *)
(* the outcome into an HTTP response.                                      *)
(*                                                                         *)
(* Text is a sequence of one-character strings.  Values decoded from JSON  *)
(* are tagged records: [t |-> "null"], [t |-> "bool", v |-> TRUE],         *)
(* [t |-> "int", v |-> 3], [t |-> "str", v |-> <<"a">>],                   *)
(* [t |-> "list", v |-> <<...>>], [t |-> "obj", v |-> [key |-> value]].    *)
(***************************************************************************)
EXTENDS Integers, Sequences, FiniteSets, TLC

VARIABLES pc, request, prompt, modelCalls, outcome, result, response

vars == <<pc, request, prompt, modelCalls, outcome, result, response>>

(***************************************************************************)
(* Literal texts of the source.                                            *)
(***************************************************************************)
\* the backtick character: a TLA+ string cannot hold it, so it is written "BT"
BACKTICK == "BT"

K_score == <<"s", "c", "o", "r", "e">>
K_classification == <<"c", "l", "a", "s", "s", "i", "f", "i", "c", "a", "t", "i", "o", "n">>
K_observations == <<"o", "b", "s", "e", "r", "v", "a", "t", "i", "o", "n", "s">>
K_compensations_detected == <<"c", "o", "m", "p", "e", "n", "s", "a", "t", "i", "o", "n", "s", "_", "d", "e", "t", "e", "c", "t", "e", "d">>
K_strengths == <<"s", "t", "r", "e", "n", "g", "t", "h", "s">>
K_improvements == <<"i", "m", "p", "r", "o", "v", "e", "m", "e", "n", "t", "s">>
K_mobility_focus_areas == <<"m", "o", "b", "i", "l", "i", "t", "y", "_", "f", "o", "c", "u", "s", "_", "a", "r", "e", "a", "s">>
K_summary == <<"s", "u", "m", "m", "a", "r", "y">>
K_depth == <<"d", "e", "p", "t", "h">>
K_torso == <<"t", "o", "r", "s", "o">>
K_heels == <<"h", "e", "e", "l", "s">>
K_knees == <<"k", "n", "e", "e", "s">>
K_arms == <<"a", "r", "m", "s">>
K_pose_detection_summary == <<"p", "o", "s", "e", "_", "d", "e", "t", "e", "c", "t", "i", "o", "n", "_", "s", "u", "m", "m", "a", "r", "y">>
K_min_knee_angle == <<"m", "i", "n", "_", "k", "n", "e", "e", "_", "a", "n", "g", "l", "e">>
K_depth_reached == <<"d", "e", "p", "t", "h", "_", "r", "e", "a", "c", "h", "e", "d">>
K_squats_counted == <<"s", "q", "u", "a", "t", "s", "_", "c", "o", "u", "n", "t", "e", "d">>
K_depth_reached_below_parallel == <<"d", "e", "p", "t", "h", "_", "r", "e", "a", "c", "h", "e", "d", "_", "b", "e", "l", "o", "w", "_", "p", "a", "r", "a", "l", "l", "e", "l">>
K_squats_detected == <<"s", "q", "u", "a", "t", "s", "_", "d", "e", "t", "e", "c", "t", "e", "d">>
K_person_detection_rate == <<"p", "e", "r", "s", "o", "n", "_", "d", "e", "t", "e", "c", "t", "i", "o", "n", "_", "r", "a", "t", "e">>
K_feedback_during_recording == <<"f", "e", "e", "d", "b", "a", "c", "k", "_", "d", "u", "r", "i", "n", "g", "_", "r", "e", "c", "o", "r", "d", "i", "n", "g">>
S_Unknown == <<"U", "n", "k", "n", "o", "w", "n">>
S_Not_assessed == <<"N", "o", "t", " ", "a", "s", "s", "e", "s", "s", "e", "d">>
S_Analysis_completed == <<"A", "n", "a", "l", "y", "s", "i", "s", " ", "c", "o", "m", "p", "l", "e", "t", "e", "d">>
S_Optimal == <<"O", "p", "t", "i", "m", "a", "l">>
S_Compensated == <<"C", "o", "m", "p", "e", "n", "s", "a", "t", "e", "d">>
S_Dysfunctional == <<"D", "y", "s", "f", "u", "n", "c", "t", "i", "o", "n", "a", "l">>
S_Pain == <<"P", "a", "i", "n">>
FENCE == <<BACKTICK, BACKTICK, BACKTICK>>
FENCE_JSON == <<BACKTICK, BACKTICK, BACKTICK, "j", "s", "o", "n">>
LIT_true == <<"t", "r", "u", "e">>
LIT_false == <<"f", "a", "l", "s", "e">>
LIT_null == <<"n", "u", "l", "l">>

QUOTE == "\""
NL == "\n"

(***************************************************************************)
(* Python str operations used by the reply scraper.                        *)
(***************************************************************************)
Whitespace == {" ", "\n", "\t", "\r"}

\* the first index i >= lo with Test(s[i]), 0 when there is none
FirstIndex(s, lo, Test(_)) ==
  IF \E i \in lo..Len(s) : Test(s[i])
  THEN CHOOSE i \in lo..Len(s) : Test(s[i]) /\ \A j \in lo..(i - 1) : ~Test(s[j])
  ELSE 0

\* the last index i with Test(s[i]), 0 when there is none
LastIndex(s, Test(_)) ==
  IF \E i \in 1..Len(s) : Test(s[i])
  THEN CHOOSE i \in 1..Len(s) : Test(s[i])
                                /\ \A j \in (i + 1)..Len(s) : ~Test(s[j])
  ELSE 0

\* pat in s
Contains(s, pat) ==
  \E i \in 1..(Len(s) - Len(pat) + 1) : SubSeq(s, i, i + Len(pat) - 1) = pat

\* s.startswith(pat)
StartsWith(s, pat) == Len(s) >= Len(pat) /\ SubSeq(s, 1, Len(pat)) = pat

\* s.find(c), 1-based; 0 stands for Python -1
Find(s, c) == FirstIndex(s, 1, LAMBDA x : x = c)

\* s.rfind(c), 1-based; 0 stands for Python -1
RFind(s, c) == LastIndex(s, LAMBDA x : x = c)

\* s.strip()
Strip(s) ==
  LET first == FirstIndex(s, 1, LAMBDA x : x \notin Whitespace)
  IN  IF first = 0 THEN <<>>
      ELSE SubSeq(s, first, LastIndex(s, LAMBDA x : x \notin Whitespace))

\* s.split('\n')
Split(s) ==
  LET brk == {i \in 1..Len(s) : s[i] = NL}
      cut(k) == IF k = 0 THEN 0
                ELSE IF k = Cardinality(brk) + 1 THEN Len(s) + 1
                ELSE CHOOSE i \in brk : Cardinality({j \in brk : j < i}) = k - 1
  IN  [k \in 1..(Cardinality(brk) + 1) |-> SubSeq(s, cut(k - 1) + 1, cut(k) - 1)]

\* '\n'.join(lines)
RECURSIVE Join(_)
Join(lines) ==
  IF Len(lines) = 0 THEN <<>>
  ELSE IF Len(lines) = 1 THEN lines[1]
  ELSE lines[1] \o <<NL>> \o Join(Tail(lines))

\* s[:n]
Prefix(s, n) == SubSeq(s, 1, IF Len(s) < n THEN Len(s) ELSE n)

(***************************************************************************)
(* Decoded JSON values.                                                    *)
(***************************************************************************)
None == [t |-> "null"]

JBool(b) == [t |-> "bool", v |-> b]

JInt(n) == [t |-> "int", v |-> n]

JStr(s) == [t |-> "str", v |-> s]

JList(l) == [t |-> "list", v |-> l]

JObj(f) == [t |-> "obj", v |-> f]

EmptyDict == [k \in {} |-> None]

\* d[k] = x on a dict
DictSet(d, k, x) == JObj([j \in (DOMAIN d.v) \cup {k} |-> IF j = k THEN x ELSE d.v[j]])

\* d.get(k): the value, or None when the key is absent
DictGet(d, k) == IF k \in DOMAIN d.v THEN d.v[k] ELSE None

(***************************************************************************)
(* json.loads on the texts the model can reply with.  The decoder follows  *)
(* the standard library's scanner: whitespace is skipped between tokens,   *)
(* an object's keys are strings, a raw control character ends a string     *)
(* with an error, a repeated key keeps its last value, and anything left   *)
(* after the first value is an error ("Extra data").  The reply texts of   *)
(* this model hold no backslash, fraction or exponent, so escapes and      *)
(* floats are not decoded.                                                 *)
(***************************************************************************)
Digits == {"0", "1", "2", "3", "4", "5", "6", "7", "8", "9"}

DigitVal(c) ==
  CASE c = "0" -> 0 [] c = "1" -> 1 [] c = "2" -> 2 [] c = "3" -> 3 [] c = "4" -> 4
    [] c = "5" -> 5 [] c = "6" -> 6 [] c = "7" -> 7 [] c = "8" -> 8 [] c = "9" -> 9

ControlChars == {"\n", "\t", "\r"}

Fail == [ok |-> FALSE, val |-> None, pos |-> 0]

Ok(x, p) == [ok |-> TRUE, val |-> x, pos |-> p]

\* the first index >= i that holds no whitespace (Len(s) + 1 when there is none)
SkipWs(s, i) ==
  LET j == FirstIndex(s, i, LAMBDA x : x \notin Whitespace)
  IN  IF j = 0 THEN (IF i > Len(s) THEN i ELSE Len(s) + 1) ELSE j

At(s, i) == IF i >= 1 /\ i <= Len(s) THEN s[i] ELSE "EOF"

\* a string starting at the quote s[i]
ParseString(s, i) ==
  LET j == FirstIndex(s, i + 1, LAMBDA x : x = QUOTE)
  IN  IF j = 0 THEN Fail
      ELSE LET body == SubSeq(s, i + 1, j - 1)
           IN  IF \E k \in 1..Len(body) : body[k] \in ControlChars THEN Fail
               ELSE Ok(JStr(body), j + 1)

RECURSIVE DigitsValue(_)
DigitsValue(ds) ==
  IF Len(ds) = 0 THEN 0
  ELSE 10 * DigitsValue(SubSeq(ds, 1, Len(ds) - 1)) + DigitVal(ds[Len(ds)])

\* an integer 0 | [1-9][0-9]* starting at s[i]
ParseDigits(s, i) ==
  IF At(s, i) \notin Digits THEN Fail
  ELSE IF s[i] = "0" THEN Ok(JInt(0), i + 1)
  ELSE LET stop == FirstIndex(s, i, LAMBDA x : x \notin Digits)
           e == IF stop = 0 THEN Len(s) ELSE stop - 1
       IN  Ok(JInt(DigitsValue(SubSeq(s, i, e))), e + 1)

ParseNumber(s, i) ==
  IF At(s, i) = "-"
  THEN LET r == ParseDigits(s, i + 1)
       IN  IF r.ok THEN Ok(JInt(0 - r.val.v), r.pos) ELSE Fail
  ELSE ParseDigits(s, i)

IsAt(s, i, pat) == SubSeq(s, i, i + Len(pat) - 1) = pat

RECURSIVE ParseValue(_, _), ParseMembers(_, _, _), ParseItems(_, _, _)

\* scan_once: the value starting at s[i]
ParseValue(s, i) ==
  LET c == At(s, i)
  IN  CASE c = QUOTE -> ParseString(s, i)
        [] c = "{" ->
             LET j == SkipWs(s, i + 1)
             IN  IF At(s, j) = "}" THEN Ok(JObj(EmptyDict), j + 1)
                 ELSE ParseMembers(s, j, JObj(EmptyDict))
        [] c = "[" ->
             LET j == SkipWs(s, i + 1)
             IN  IF At(s, j) = "]" THEN Ok(JList(<<>>), j + 1)
                 ELSE ParseItems(s, j, <<>>)
        [] c = "n" /\ IsAt(s, i, LIT_null) -> Ok(None, i + 4)
        [] c = "t" /\ IsAt(s, i, LIT_true) -> Ok(JBool(TRUE), i + 4)
        [] c = "f" /\ IsAt(s, i, LIT_false) -> Ok(JBool(FALSE), i + 5)
        [] c \in Digits \cup {"-"} -> ParseNumber(s, i)
        [] OTHER -> Fail

\* JSONObject: "key" : value pairs from s[j] to the closing brace
ParseMembers(s, j, acc) ==
  IF At(s, j) # QUOTE THEN Fail
  ELSE LET k == ParseString(s, j)
       IN  IF ~k.ok THEN Fail
           ELSE LET c == SkipWs(s, k.pos)
                IN  IF At(s, c) # ":" THEN Fail
                    ELSE LET x == ParseValue(s, SkipWs(s, c + 1))
                         IN  IF ~x.ok THEN Fail
                             ELSE LET m == SkipWs(s, x.pos)
                                      more == DictSet(acc, k.val.v, x.val)
                                  IN  IF At(s, m) = "}" THEN Ok(more, m + 1)
                                      ELSE IF At(s, m) # "," THEN Fail
                                      ELSE ParseMembers(s, SkipWs(s, m + 1), more)

\* JSONArray: values from s[j] to the closing bracket
ParseItems(s, j, acc) ==
  LET x == ParseValue(s, j)
  IN  IF ~x.ok THEN Fail
      ELSE LET m == SkipWs(s, x.pos)
           IN  IF At(s, m) = "]" THEN Ok(JList(Append(acc, x.val)), m + 1)
               ELSE IF At(s, m) # "," THEN Fail
               ELSE ParseItems(s, SkipWs(s, m + 1), Append(acc, x.val))

\* json.loads(s): [ok |-> TRUE, val |-> value], or ok = FALSE for JSONDecodeError
json_loads(s) ==
  LET x == ParseValue(s, SkipWs(s, 1))
  IN  IF x.ok /\ SkipWs(s, x.pos) = Len(s) + 1 THEN [ok |-> TRUE, val |-> x.val]
      ELSE [ok |-> FALSE, val |-> None]

(***************************************************************************)
(* Python value semantics the normalizer relies on.                        *)
(***************************************************************************)
Raised(e) == [raised |-> TRUE, err |-> e, val |-> None]

Done(x) == [raised |-> FALSE, err |-> "", val |-> x]

IsNum(a) == a.t \in {"int", "bool"}

\* bool is a subclass of int: True == 1 and False == 0
Num(a) == IF a.t = "bool" THEN (IF a.v THEN 1 ELSE 0) ELSE a.v

\* a == b
PyEq(a, b) ==
  IF IsNum(a) /\ IsNum(b) THEN Num(a) = Num(b)
  ELSE IF a.t # b.t THEN FALSE
  ELSE IF a.t = "null" THEN TRUE
  ELSE a.v = b.v

\* bool(a)
Truthy(a) ==
  CASE a.t = "null" -> FALSE
    [] a.t = "bool" -> a.v
    [] a.t = "int" -> a.v # 0
    [] a.t = "str" -> Len(a.v) > 0
    [] a.t = "list" -> Len(a.v) > 0
    [] a.t = "obj" -> DOMAIN a.v # {}

\* hash(a) succeeds: lists and dicts are unhashable
Hashable(a) == a.t \notin {"list", "obj"}

\* name in c, for a field name: "yes", "no", or "raise" (TypeError)
PyIn(name, c) ==
  CASE c.t = "obj" -> IF name \in DOMAIN c.v THEN "yes" ELSE "no"
    [] c.t = "list" ->
         IF \E i \in 1..Len(c.v) : PyEq(c.v[i], JStr(name)) THEN "yes" ELSE "no"
    [] c.t = "str" -> IF Contains(c.v, name) THEN "yes" ELSE "no"
    [] OTHER -> "raise"

\* c[name] = x, for a field name
SetItem(c, name, x) ==
  IF c.t = "obj" THEN Done(DictSet(c, name, x)) ELSE Raised("TypeError")

\* c[name], for a field name
GetItem(c, name) ==
  IF c.t # "obj" THEN Raised("TypeError")
  ELSE IF name \in DOMAIN c.v THEN Done(c.v[name])
  ELSE Raised("KeyError")

(***************************************************************************)
(* The reply scraper of analyze_squat_video.                               *)
(***************************************************************************)
\* the loop over the reply lines: the lines inside json-labelled fences
RECURSIVE FenceLoop(_, _, _)
FenceLoop(lines, in_json, json_lines) ==
  IF Len(lines) = 0 THEN json_lines
  ELSE LET line == Head(lines)
       IN  IF Contains(line, FENCE_JSON) THEN FenceLoop(Tail(lines), TRUE, json_lines)
           ELSE IF Contains(line, FENCE) /\ in_json
                THEN FenceLoop(Tail(lines), FALSE, json_lines)
           ELSE IF in_json THEN FenceLoop(Tail(lines), in_json, Append(json_lines, line))
           ELSE FenceLoop(Tail(lines), in_json, json_lines)

\* "Clean up any markdown formatting if present"
StripFences(response_text) ==
  IF Contains(response_text, FENCE)
  THEN LET json_lines == FenceLoop(Split(response_text), FALSE, <<>>)
       IN  IF Len(json_lines) > 0 THEN Join(json_lines) ELSE response_text
  ELSE response_text

\* "Try to extract JSON if there's extra text"
ExtractBraces(response_text) ==
  IF ~StartsWith(response_text, <<"{">>)
  THEN LET start_idx == Find(response_text, "{")
           end_idx == RFind(response_text, "}")
       IN  IF start_idx # 0 /\ end_idx # 0
           THEN SubSeq(response_text, start_idx, end_idx)
           ELSE response_text
  ELSE response_text

\* the text handed to json.loads
Scrape(text) == ExtractBraces(StripFences(Strip(text)))

(***************************************************************************)
(* The normalizer of analyze_squat_video.                                  *)
(***************************************************************************)
ObservationFields == <<K_depth, K_torso, K_heels, K_knees, K_arms>>

ListFields == <<K_compensations_detected, K_strengths, K_improvements, K_mobility_focus_areas>>

RequiredFields ==
  <<K_score, K_classification, K_observations>> \o ListFields \o <<K_summary>>

DefaultObservations == JObj([k \in {K_depth, K_torso, K_heels, K_knees, K_arms} |-> JStr(S_Not_assessed)])

DefaultSummary == JStr(S_Analysis_completed)

DefaultClassification == JStr(S_Unknown)

\* required_fields[field]
\* a variant whose summary default is the classification default
required_fields_summary_unknown(field) ==
  CASE field = K_score -> None
    [] field = K_classification -> DefaultClassification
    [] field = K_observations -> DefaultObservations
    [] field = K_summary -> DefaultClassification
    [] OTHER -> JList(<<>>)

required_fields(field) ==
  CASE field = K_score -> None
    [] field = K_classification -> DefaultClassification
    [] field = K_observations -> DefaultObservations
    [] field = K_summary -> DefaultSummary
    [] OTHER -> JList(<<>>)

\* the inner loop: backfill the sub-fields missing from analysis_result["observations"]
RECURSIVE BackfillObservations(_, _)
BackfillObservations(obs, fields) ==
  IF Len(fields) = 0 THEN Done(obs)
  ELSE LET has == PyIn(Head(fields), obs)
       IN  IF has = "raise" THEN Raised("TypeError")
           ELSE IF has = "yes" THEN BackfillObservations(obs, Tail(fields))
           ELSE LET set == SetItem(obs, Head(fields), JStr(S_Not_assessed))
                IN  IF set.raised THEN set
                    ELSE BackfillObservations(set.val, Tail(fields))

\* the outer loop: "Fill in missing fields with defaults"
RECURSIVE Backfill(_, _)
Backfill(analysis_result, fields) ==
  IF Len(fields) = 0 THEN Done(analysis_result)
  ELSE LET field == Head(fields)
           has == PyIn(field, analysis_result)
       IN  IF has = "raise" THEN Raised("TypeError")
           ELSE IF has = "no"
                THEN LET set == SetItem(analysis_result, field, required_fields(field))
                     IN  IF set.raised THEN set ELSE Backfill(set.val, Tail(fields))
           ELSE IF field = K_observations
                THEN LET cur == GetItem(analysis_result, field)
                     IN  IF cur.raised THEN cur
                         ELSE LET obs == BackfillObservations(cur.val, ObservationFields)
                              IN  IF obs.raised THEN obs
                                  ELSE Backfill(DictSet(analysis_result, field, obs.val),
                                                Tail(fields))
           ELSE Backfill(analysis_result, Tail(fields))

\* x in [0, 1, 2, 3]
ScoreInRange(x) == \E n \in {0, 1, 2, 3} : PyEq(x, JInt(n))

\* classification_map.get(c, 2), for a hashable c
classification_map(c) ==
  IF c.t # "str" THEN 2
  ELSE CASE c.v = S_Optimal -> 3
         [] c.v = S_Compensated -> 2
         [] c.v = S_Dysfunctional -> 1
         [] c.v = S_Pain -> 0
         [] OTHER -> 2

\* score_classification_map.get(s, "Compensated"), for a hashable s
score_classification_map(s) ==
  IF ~IsNum(s) THEN S_Compensated
  ELSE CASE Num(s) = 3 -> S_Optimal
         [] Num(s) = 2 -> S_Compensated
         [] Num(s) = 1 -> S_Dysfunctional
         [] Num(s) = 0 -> S_Pain
         [] OTHER -> S_Compensated

CanonicalLabels == {S_Optimal, S_Compensated, S_Dysfunctional, S_Pain}

\* c in score_classification_map.values()
IsCanonical(c) == \E l \in CanonicalLabels : PyEq(c, JStr(l))

\* a variant that replaces a score outside [0, 1, 2, 3] by 2 whatever the classification
ValidateScore_always_default(analysis_result) ==
  IF ~ScoreInRange(DictGet(analysis_result, K_score))
  THEN LET c == DictGet(analysis_result, K_classification)
       IN  IF ~Hashable(c) THEN Raised("TypeError")
           ELSE Done(DictSet(analysis_result, K_score, JInt(2)))
  ELSE Done(analysis_result)

\* "Validate score": a score outside [0, 1, 2, 3] is inferred from the classification
ValidateScore(analysis_result) ==
  IF ~ScoreInRange(DictGet(analysis_result, K_score))
  THEN LET c == DictGet(analysis_result, K_classification)
       IN  IF ~Hashable(c) THEN Raised("TypeError")
           ELSE Done(DictSet(analysis_result, K_score, JInt(classification_map(c))))
  ELSE Done(analysis_result)

\* "Ensure classification matches score": only a non-canonical label is replaced
EnsureClassification(analysis_result) ==
  IF ~IsCanonical(DictGet(analysis_result, K_classification))
  THEN DictSet(analysis_result, K_classification,
               JStr(score_classification_map(analysis_result.v[K_score])))
  ELSE analysis_result

\* "Add pose data reference to result if provided"
AttachPoseSummary(analysis_result, pose_detection_data) ==
  IF Truthy(pose_detection_data)
  THEN DictSet(analysis_result, K_pose_detection_summary,
         JObj((K_min_knee_angle :> DictGet(pose_detection_data, K_min_knee_angle))
           @@ (K_depth_reached :> DictGet(pose_detection_data, K_depth_reached_below_parallel))
           @@ (K_squats_counted :> DictGet(pose_detection_data, K_squats_detected))))
  ELSE analysis_result

\* response_text[:1000]
RawCap == 1000

\* a variant that returns the whole text
ParseFailure_uncapped(response_text) ==
  [success |-> FALSE, error |-> "Failed to parse AI response as JSON",
   raw_response |-> JStr(response_text)]

ParseFailure(response_text) ==
  [success |-> FALSE, error |-> "Failed to parse AI response as JSON",
   raw_response |-> JStr(Prefix(response_text, RawCap))]

\* the outer "except Exception as e": the error is str(e)
Caught(e) == [success |-> FALSE, error |-> e]

\* analyze_squat_video from the reply text to its return value
Normalize(text, pose_detection_data) ==
  LET response_text == Scrape(text)
      loaded == json_loads(response_text)
  IN  IF ~loaded.ok THEN ParseFailure(response_text)
      ELSE LET filled == Backfill(loaded.val, RequiredFields)
           IN  IF filled.raised THEN Caught(filled.err)
               ELSE LET scored == ValidateScore(filled.val)
                    IN  IF scored.raised THEN Caught(scored.err)
                        ELSE [success |-> TRUE,
                              analysis |-> AttachPoseSummary(EnsureClassification(scored.val),
                                                             pose_detection_data)]

(***************************************************************************)
(* The prompt.  Its text is fixed apart from which sections it holds, so   *)
(* it is the sequence of its sections.                                     *)
(***************************************************************************)
\* the f-string of pose_context formats person_detection_rate * 100 with :.0f
\* and joins feedback_during_recording with ', '
PoseContextFormats(pose_data) ==
  /\ K_person_detection_rate \in DOMAIN pose_data.v => IsNum(pose_data.v[K_person_detection_rate])
  /\ K_feedback_during_recording \in DOMAIN pose_data.v =>
       LET f == pose_data.v[K_feedback_during_recording]
       IN  \/ f.t = "str"
           \/ f.t = "list" /\ \A i \in 1..Len(f.v) : f.v[i].t = "str"
           \/ f.t = "obj"

build_analysis_prompt(pose_data) ==
  IF Truthy(pose_data)
  THEN IF pose_data.t # "obj" THEN Raised("AttributeError")
       ELSE IF ~PoseContextFormats(pose_data) THEN Raised("TypeError")
       ELSE Done(<<"base_prompt", "pose_context", "scoring_criteria", "response_format">>)
  ELSE Done(<<"base_prompt", "visual_only_note", "scoring_criteria", "response_format">>)

\* a variant that adds the pain context only to a prompt built without pose data
PreparePrompt_pain_without_pose(reported_pain, pose_detection_data) ==
  LET built == build_analysis_prompt(pose_detection_data)
  IN  IF built.raised THEN built
      ELSE Done(IF reported_pain /\ ~Truthy(pose_detection_data)
                THEN Append(built.val, "pain_override") ELSE built.val)

\* analyze_squat_video up to model.generate_content: the prompt, or the caught exception
PreparePrompt(reported_pain, pose_detection_data) ==
  LET built == build_analysis_prompt(pose_detection_data)
  IN  IF built.raised THEN built
      ELSE Done(IF reported_pain THEN Append(built.val, "pain_override") ELSE built.val)

\* analyze_squat_video from the return of model.generate_content on
AfterModel(o, pose_detection_data) ==
  IF o.kind = "raise" THEN Caught(o.err)
  ELSE Normalize(o.text, pose_detection_data)

(***************************************************************************)
(* The handlers.  A request is the endpoint and the fields read from the   *)
(* JSON body: media is data.get("video") or data.get("image"), mime is the *)
(* mime_type given ("" when absent), pose is                               *)
(* data.get("pose_detection_data").                                        *)
(***************************************************************************)
Respond(status, body) == [status |-> status, body |-> body]

MediaField(endpoint) == IF endpoint = "analyze" THEN "video" ELSE "image"

DefaultMime(endpoint) == IF endpoint = "analyze" THEN "video/mp4" ELSE "image/jpeg"

MimeType(req) == IF req.mime = "" THEN DefaultMime(req.endpoint) ELSE req.mime

MissingMedia(endpoint) ==
  Respond(400, [success |-> FALSE,
                error |-> IF endpoint = "analyze" THEN "video (base64) is required"
                          ELSE "image (base64) is required",
                timestamp |-> "now"])

\* the handler's own "except Exception as e"
HandlerCaught(e) == Respond(500, [success |-> FALSE, error |-> e, timestamp |-> "now"])

\* analyze: the response built from the return value of analyze_squat_video
analyze_response(res) ==
  IF res.success
  THEN Respond(200, [success |-> TRUE, timestamp |-> "now", result |-> res.analysis])
  ELSE Respond(500, [success |-> FALSE, error |-> res.error,
                     raw_response |-> IF "raw_response" \in DOMAIN res
                                      THEN res.raw_response ELSE None,
                     timestamp |-> "now"])

\* analyze_frame: the response built from the return value of analyze_squat_video
analyze_frame_response(res) ==
  IF res.success
  THEN Respond(200, [success |-> TRUE, timestamp |-> "now", result |-> res.analysis,
                     note |-> "Analysis based on single frame - video analysis recommended"])
  ELSE Respond(500, [success |-> FALSE, error |-> res.error, timestamp |-> "now"])

EndpointResponse(endpoint, res) ==
  IF endpoint = "analyze" THEN analyze_response(res) ELSE analyze_frame_response(res)

\* len(video_base64) in the request log
HasLen(x) == x.t \in {"str", "list", "obj"}

\* a variant that rejects only a media field that is None
BeforeCall_none_only(req) ==
  IF req.media.t = "null" THEN [step |-> "respond", response |-> MissingMedia(req.endpoint)]
  ELSE IF ~HasLen(req.media)
       THEN [step |-> "respond", response |-> HandlerCaught("TypeError")]
  ELSE IF req.endpoint = "analyze" /\ Truthy(req.pose) /\ req.pose.t # "obj"
       THEN [step |-> "respond", response |-> HandlerCaught("AttributeError")]
  ELSE [step |-> "call", response |-> None]

\* the handler up to the call of analyze_squat_video:
\* "respond" with a response, or "call"
BeforeCall(req) ==
  IF ~Truthy(req.media) THEN [step |-> "respond", response |-> MissingMedia(req.endpoint)]
  ELSE IF ~HasLen(req.media)
       THEN [step |-> "respond", response |-> HandlerCaught("TypeError")]
  ELSE IF req.endpoint = "analyze" /\ Truthy(req.pose) /\ req.pose.t # "obj"
       THEN [step |-> "respond", response |-> HandlerCaught("AttributeError")]
  ELSE [step |-> "call", response |-> None]

(***************************************************************************)
(* Reply texts.  The external model is a black box: it may reply with any  *)
(* text.  The replies below are written out from JSON values by Dumps (the *)
(* model replying with that value, on one line or one member per line),    *)
(* wrapped in fences and prose, or are not JSON at all.                    *)
(***************************************************************************)
Absent == [t |-> "absent"]

\* the dict of the members that are not Absent
Members(f) == JObj([k \in {j \in DOMAIN f : f[j] # Absent} |-> f[k]])

DigitChar(d) == <<"0", "1", "2", "3", "4", "5", "6", "7", "8", "9">>[d + 1]

RECURSIVE DumpNat(_)
DumpNat(n) == IF n < 10 THEN <<DigitChar(n)>> ELSE DumpNat(n \div 10) \o <<DigitChar(n % 10)>>

KeyOrder ==
  RequiredFields \o ObservationFields

RECURSIVE Dumps(_, _), DumpSeq(_, _, _), DumpPairs(_, _, _)

\* the JSON text of value x; sep is written between the members of x itself
Dumps(x, sep) ==
  CASE x.t = "null" -> LIT_null
    [] x.t = "bool" -> IF x.v THEN LIT_true ELSE LIT_false
    [] x.t = "int" -> IF x.v < 0 THEN <<"-">> \o DumpNat(0 - x.v) ELSE DumpNat(x.v)
    [] x.t = "str" -> <<QUOTE>> \o x.v \o <<QUOTE>>
    [] x.t = "list" -> <<"[">> \o DumpSeq(x.v, 1, sep) \o <<"]">>
    [] x.t = "obj" ->
         LET keys == SelectSeq(KeyOrder, LAMBDA k : k \in DOMAIN x.v)
         IN  IF sep = <<",">> THEN <<"{">> \o DumpPairs(x.v, keys, sep) \o <<"}">>
             ELSE <<"{", NL>> \o DumpPairs(x.v, keys, sep) \o <<NL, "}">>

DumpSeq(l, i, sep) ==
  IF i > Len(l) THEN <<>>
  ELSE Dumps(l[i], <<",">>) \o (IF i < Len(l) THEN <<",">> ELSE <<>>) \o DumpSeq(l, i + 1, sep)

DumpPairs(f, keys, sep) ==
  IF Len(keys) = 0 THEN <<>>
  ELSE <<QUOTE>> \o Head(keys) \o <<QUOTE, ":">> \o Dumps(f[Head(keys)], <<",">>)
       \o (IF Len(keys) > 1 THEN sep ELSE <<>>) \o DumpPairs(f, Tail(keys), sep)

OneLine == <<",">>

PerLine == <<",", NL>>

\* a score out of range, and the values a reply may give as its score
BadScore == 9

ScoreValues ==
  <<Absent, None, JInt(0), JInt(1), JInt(2), JInt(3), JInt(BadScore), JInt(-1),
    JBool(TRUE), JStr(<<"3">>), JList(<<JInt(3)>>)>>

LowerOptimal == <<"o", "p", "t", "i", "m", "a", "l">>

ClassificationValues ==
  <<Absent, None, JStr(S_Optimal), JStr(S_Compensated), JStr(S_Dysfunctional), JStr(S_Pain),
    JStr(S_Unknown), JStr(LowerOptimal), JInt(3), JList(<<JStr(S_Optimal)>>)>>

\* replies that give a score and a classification, in every combination
PairText(s, c) == Dumps(Members((K_score :> s) @@ (K_classification :> c)), OneLine)

PairReplies ==
  {PairText(ScoreValues[i], ClassificationValues[j]) :
     i \in 1..Len(ScoreValues), j \in 1..Len(ClassificationValues)}

Said == JStr(<<"o", "k">>)

SuppliedList == JList(<<JStr(<<"h", "i", "p", "s">>)>>)

\* the value a well-formed reply gives for a required field
Supplied(field) ==
  CASE field = K_score -> JInt(1)
    [] field = K_classification -> JStr(S_Dysfunctional)
    [] field = K_observations -> JObj((K_heels :> Said) @@ (K_arms :> Said))
    [] field = K_summary -> Said
    [] OTHER -> SuppliedList

FieldSet == {RequiredFields[i] : i \in 1..Len(RequiredFields)}

\* replies that leave out any subset of the required fields
SubsetReplies ==
  {Dumps(JObj([k \in present |-> Supplied(k)]), PerLine) : present \in SUBSET FieldSet}

ObservationSet == {ObservationFields[i] : i \in 1..Len(ObservationFields)}

AllNames == K_depth \o <<" ">> \o K_torso \o <<" ">> \o K_heels \o <<" ">> \o K_knees \o <<" ">> \o K_arms

\* the values a reply may give as its observations
OddObservations ==
  <<None, JInt(1), JStr(K_depth), JStr(AllNames), JList(<<>>),
    JList(<<JStr(K_depth), JStr(K_torso), JStr(K_heels), JStr(K_knees), JStr(K_arms)>>)>>

ObservationText(o) == Dumps(JObj((K_observations :> o) @@ (K_score :> JInt(3))), OneLine)

ObservationReplies ==
  {ObservationText(JObj([k \in present |-> Said])) : present \in SUBSET ObservationSet}
    \cup {ObservationText(OddObservations[i]) : i \in 1..Len(OddObservations)}

\* replies that are JSON but no object
NonObjects ==
  <<None, JBool(TRUE), JInt(5), JStr(K_score), JList(<<>>), JList(<<JInt(1)>>),
    JList(<<JStr(K_observations)>>)>>

NonObjectReplies == {Dumps(NonObjects[i], OneLine) : i \in 1..Len(NonObjects)}

\* JSON object texts that a reply may carry inside fences or prose
TickSummary == Members((K_score :> JInt(3)) @@ (K_summary :> JStr(FENCE)))

ObjectTexts ==
  {Dumps(JObj(EmptyDict), OneLine),
   Dumps(Members((K_score :> JInt(1)) @@ (K_classification :> JStr(S_Optimal))), OneLine),
   Dumps(Members((K_score :> JInt(3)) @@ (K_summary :> Said)), PerLine),
   Dumps(TickSummary, OneLine),
   Dumps(TickSummary, PerLine)}

Prose == <<"H", "e", "r", "e", " ", "i", "t", " ", "i", "s", ":">>

BraceProse == <<"s", "e", "e", " ", "{", "x", "}">>

WrapStyles ==
  {"bare", "padded", "fence_json", "fence_plain", "prose_fence_json", "prose_fence_plain",
   "brace_prose_fence_json", "brace_prose_fence_plain", "prose_bare"}

\* the reply that carries the text J in the given style
Wrap(style, J) ==
  CASE style = "bare" -> J
    [] style = "padded" -> <<" ", NL>> \o J \o <<NL>>
    [] style = "fence_json" -> FENCE_JSON \o <<NL>> \o J \o <<NL>> \o FENCE
    [] style = "fence_plain" -> FENCE \o <<NL>> \o J \o <<NL>> \o FENCE
    [] style = "prose_fence_json" ->
         Prose \o <<NL>> \o FENCE_JSON \o <<NL>> \o J \o <<NL>> \o FENCE \o <<NL>> \o Prose
    [] style = "prose_fence_plain" ->
         Prose \o <<NL>> \o FENCE \o <<NL>> \o J \o <<NL>> \o FENCE \o <<NL>> \o Prose
    [] style = "brace_prose_fence_json" ->
         BraceProse \o <<NL>> \o FENCE_JSON \o <<NL>> \o J \o <<NL>> \o FENCE \o <<NL>> \o BraceProse
    [] style = "brace_prose_fence_plain" ->
         BraceProse \o <<NL>> \o FENCE \o <<NL>> \o J \o <<NL>> \o FENCE
    [] style = "prose_bare" -> Prose \o <<" ">> \o J \o <<" ">> \o Prose

WrappedReplies == {Wrap(style, J) : style \in WrapStyles, J \in ObjectTexts}

\* the length of the long replies
PadLen == 1001

Pad(n) == [i \in 1..n |-> "x"]

TruncatedScore == <<"{", QUOTE>> \o K_score \o <<QUOTE, ":">>

TruncatedSummary == <<"{", QUOTE>> \o K_summary \o <<QUOTE, ":", QUOTE>>

\* replies that hold no JSON value
BrokenReplies ==
  {<<>>, <<" ", NL>>, <<"x">>, Prose, TruncatedScore, TruncatedScore \o <<"3">>,
   FENCE_JSON \o <<NL, NL>> \o FENCE,
   FENCE_JSON \o <<NL>> \o TruncatedScore \o <<NL>> \o FENCE,
   Pad(RawCap), Pad(PadLen), TruncatedSummary \o Pad(PadLen),
   Prose \o <<" ">> \o TruncatedSummary \o Pad(PadLen) \o <<"}">>}

Replies ==
  PairReplies \cup SubsetReplies \cup ObservationReplies \cup NonObjectReplies
    \cup WrappedReplies \cup BrokenReplies

\* what model.generate_content([prompt, video_part]) and response.text do:
\* return a text, or raise
Outcomes ==
  {[kind |-> "text", text |-> r, err |-> ""] : r \in Replies}
    \cup {[kind |-> "raise", text |-> <<>>, err |-> e] :
            e \in {"ConnectionError", "ResourceExhausted", "ValueError"}}

(***************************************************************************)
(* Requests.                                                               *)
(***************************************************************************)
Base64 == JStr(<<"A", "A", "A", "A">>)

MediaValues == <<None, JStr(<<>>), Base64, JInt(7)>>

MimeValues == {"", "video/webm"}

FullPose ==
  JObj((K_min_knee_angle :> JInt(85)) @@ (K_depth_reached_below_parallel :> JBool(TRUE))
       @@ (K_squats_detected :> JInt(3)) @@ (K_person_detection_rate :> JInt(1))
       @@ (K_feedback_during_recording :> JList(<<Said>>)))

PartialPose == JObj(K_min_knee_angle :> JInt(104))

BadRatePose == JObj((K_min_knee_angle :> JInt(85)) @@ (K_person_detection_rate :> None))

PoseValues == <<None, JObj(EmptyDict), FullPose, PartialPose, BadRatePose, Said>>

Endpoints == {"analyze", "analyze_frame"}

Request(endpoint, m, mime, reported_pain, p) ==
  [endpoint |-> endpoint, media |-> MediaValues[m], mime |-> mime,
   reported_pain |-> reported_pain, pose |-> PoseValues[p]]

(***************************************************************************)
(* The state machine of one worker.  pc is "idle" between requests,        *)
(* "invoking" while model.generate_content is outstanding, "done" once the *)
(* response has been returned.                                             *)
(***************************************************************************)
Init ==
  /\ pc = "idle"
  /\ request = None
  /\ prompt = <<>>
  /\ modelCalls = 0
  /\ outcome = None
  /\ result = None
  /\ response = None

\* POST /analyze or /analyze-frame arrives: the handler runs up to the model call
Post(req) ==
  /\ pc = "idle"
  /\ request' = req
  /\ LET before == BeforeCall(req)
         prepared == PreparePrompt(req.reported_pain, req.pose)
     IN  IF before.step = "respond"
         THEN /\ response' = before.response
              /\ pc' = "done"
              /\ UNCHANGED <<prompt, result>>
         ELSE IF prepared.raised
         THEN /\ result' = Caught(prepared.err)
              /\ response' = EndpointResponse(req.endpoint, Caught(prepared.err))
              /\ pc' = "done"
              /\ UNCHANGED prompt
         ELSE /\ prompt' = prepared.val
              /\ pc' = "invoking"
              /\ UNCHANGED <<result, response>>
  /\ UNCHANGED <<modelCalls, outcome>>

\* model.generate_content returns or raises: the rest of analyze_squat_video and
\* of the handler
ModelReturns(o) ==
  /\ pc = "invoking"
  /\ outcome' = o
  /\ modelCalls' = modelCalls + 1
  /\ result' = AfterModel(o, request.pose)
  /\ response' = EndpointResponse(request.endpoint, result')
  /\ pc' = "done"
  /\ UNCHANGED <<request, prompt>>

\* the response has been sent; the worker takes the next request with nothing kept
Finish ==
  /\ pc = "done"
  /\ pc' = "idle"
  /\ request' = None
  /\ prompt' = <<>>
  /\ modelCalls' = 0
  /\ outcome' = None
  /\ result' = None
  /\ response' = None

Next ==
  \/ \E endpoint \in Endpoints, m \in 1..Len(MediaValues), mime \in MimeValues,
        reported_pain \in BOOLEAN, p \in 1..Len(PoseValues) :
       Post(Request(endpoint, m, mime, reported_pain, p))
  \/ \E o \in Outcomes : ModelReturns(o)
  \/ Finish

Spec == Init /\ [][Next]_vars

\* the response the handler returns to req when the model call, if it is reached,
\* has outcome o
Served(req, o) ==
  LET before == BeforeCall(req)
      prepared == PreparePrompt(req.reported_pain, req.pose)
  IN  IF before.step = "respond" THEN before.response
      ELSE IF prepared.raised THEN EndpointResponse(req.endpoint, Caught(prepared.err))
      ELSE EndpointResponse(req.endpoint, AfterModel(o, req.pose))

(***************************************************************************)
(* Vocabulary of the properties.  Values are compared as Python compares   *)
(* them: a score is in {0, 1, 2, 3} when it equals one of them, so the     *)
(* JSON literal true counts as 1 and false as 0.                           *)
(***************************************************************************)
\* the fixed mapping 3 <-> Optimal, 2 <-> Compensated, 1 <-> Dysfunctional, 0 <-> Pain
LabelOf(n) ==
  CASE n = 3 -> S_Optimal [] n = 2 -> S_Compensated [] n = 1 -> S_Dysfunctional
    [] n = 0 -> S_Pain

IsInt(x, n) == x.t = "int" /\ x.v = n

IsStr(x, chars) == x.t = "str" /\ x.v = chars

\* x is a score in {0, 1, 2, 3}
ValidScore(x) == x.t \in {"int", "bool"} /\ \E n \in 0..3 : PyEq(x, JInt(n))

ScoreNumber(x) == CHOOSE n \in 0..3 : PyEq(x, JInt(n))

\* x is one of the four labels
ValidLabel(x) == \E n \in 0..3 : IsStr(x, LabelOf(n))

\* score and classification of the dict a agree under the fixed mapping
Consistent(a) ==
  /\ K_score \in DOMAIN a.v /\ K_classification \in DOMAIN a.v
  /\ ValidScore(a.v[K_score])
  /\ IsStr(a.v[K_classification], LabelOf(ScoreNumber(a.v[K_score])))

\* the dict a holds the pair n / LabelOf(n)
HoldsPair(a, n) == Consistent(a) /\ ScoreNumber(a.v[K_score]) = n

\* the model has replied with a text and the request has been answered
Replied == pc = "done" /\ modelCalls = 1 /\ outcome.kind = "text"

\* the value the normalizer decodes from the reply
Decoded == json_loads(Scrape(outcome.text))

\* the reply decodes to a JSON object
RepliedObject == Replied /\ Decoded.ok /\ Decoded.val.t = "obj"

\* the score and the classification the reply supplied (None when missing)
SuppliedScore == DictGet(Decoded.val, K_score)

SuppliedLabel == DictGet(Decoded.val, K_classification)

\* C1: whenever the reply decodes to a JSON object and normalization returns a
\* result, its score and classification agree under the fixed mapping, whatever
\* pair the model supplied.
C1_PairConsistent ==
  (RepliedObject /\ result.success) => Consistent(result.analysis)

\* C2: a canonical supplied classification is kept and decides the score; only a
\* non-canonical one lets a valid supplied score decide; only when neither is valid
\* is the pair 2 / Compensated.
C2_ClassificationFirst ==
  (RepliedObject /\ result.success) =>
    /\ ValidLabel(SuppliedLabel) =>
         /\ Consistent(result.analysis)
         /\ IsStr(result.analysis.v[K_classification], SuppliedLabel.v)
    /\ (~ValidLabel(SuppliedLabel) /\ ValidScore(SuppliedScore)) =>
         HoldsPair(result.analysis, ScoreNumber(SuppliedScore))
    /\ (~ValidLabel(SuppliedLabel) /\ ~ValidScore(SuppliedScore)) =>
         HoldsPair(result.analysis, 2)

DocumentedDefault(field) == IF field = K_summary THEN JStr(S_Analysis_completed) ELSE JList(<<>>)

\* the sub-field sub of the observations the reply supplied, when it supplied one
SuppliedSub(sub) ==
  /\ K_observations \in DOMAIN Decoded.val.v
  /\ Decoded.val.v[K_observations].t = "obj"
  /\ sub \in DOMAIN Decoded.val.v[K_observations].v

\* C4: whenever the reply decodes to a JSON object, whichever required fields it
\* leaves out, the result holds every required field and every observation
\* sub-field, each with the supplied value or its default (score and classification:
\* the supplied or the reconciled value); supplied sub-fields are kept.
C4_AllFieldsPresent ==
  RepliedObject =>
    /\ result.success
    /\ \A f \in FieldSet : f \in DOMAIN result.analysis.v
    /\ \A f \in FieldSet \ {K_score, K_classification, K_observations} :
         result.analysis.v[f] =
           (IF f \in DOMAIN Decoded.val.v THEN Decoded.val.v[f] ELSE DocumentedDefault(f))
    /\ ValidScore(result.analysis.v[K_score])
    /\ ValidLabel(result.analysis.v[K_classification])
    /\ result.analysis.v[K_observations].t = "obj"
    /\ \A sub \in ObservationSet :
         /\ sub \in DOMAIN result.analysis.v[K_observations].v
         /\ result.analysis.v[K_observations].v[sub] =
              (IF SuppliedSub(sub) THEN Decoded.val.v[K_observations].v[sub]
               ELSE JStr(S_Not_assessed))

\* the reply is the text of the empty JSON object
RepliedEmptyObject ==
  /\ Replied
  /\ json_loads(outcome.text).ok
  /\ json_loads(outcome.text).val.t = "obj"
  /\ DOMAIN json_loads(outcome.text).val.v = {}

\* C5: the reply {} is normalized without failure to score 2, "Compensated", five
\* observations "Not assessed", four empty lists and the summary "Analysis completed".
C5_EmptyObjectDefaults ==
  RepliedEmptyObject =>
    /\ result.success
    /\ IsInt(result.analysis.v[K_score], 2)
    /\ IsStr(result.analysis.v[K_classification], S_Compensated)
    /\ result.analysis.v[K_observations].t = "obj"
    /\ DOMAIN result.analysis.v[K_observations].v = ObservationSet
    /\ \A sub \in ObservationSet :
         IsStr(result.analysis.v[K_observations].v[sub], S_Not_assessed)
    /\ \A i \in 1..Len(ListFields) :
         /\ result.analysis.v[ListFields[i]].t = "list"
         /\ Len(result.analysis.v[ListFields[i]].v) = 0
    /\ IsStr(result.analysis.v[K_summary], S_Analysis_completed)

\* the reply {} has been normalized for a request that carried pose metrics
C5_Witness ==
  /\ RepliedEmptyObject /\ result.success
  /\ Truthy(request.pose)
  /\ IsInt(result.analysis.v[K_score], 2)

\* a success that carries a structurally valid AnalysisResult
ValidSuccess(res) ==
  /\ res.success
  /\ res.analysis.t = "obj"
  /\ FieldSet \subseteq DOMAIN res.analysis.v
  /\ ValidScore(res.analysis.v[K_score])
  /\ ValidLabel(res.analysis.v[K_classification])
  /\ res.analysis.v[K_observations].t = "obj"
  /\ ObservationSet \subseteq DOMAIN res.analysis.v[K_observations].v

\* an explicit parse failure: the reason and the truncated raw text
ParseFailureRecord(res) ==
  /\ ~res.success
  /\ "error" \in DOMAIN res
  /\ "raw_response" \in DOMAIN res

\* C6: once the reply text has been received, the normalizer ends either in a
\* success with a structurally valid AnalysisResult or in a parse failure that
\* carries the reason and the raw text; there is no third outcome.
C6_TwoOutcomes ==
  Replied => (ValidSuccess(result) \/ ParseFailureRecord(result))

FenceStyles ==
  {"fence_json", "fence_plain", "prose_fence_json", "prose_fence_plain",
   "brace_prose_fence_json", "brace_prose_fence_plain"}

\* C7: a reply that carries a valid JSON object text between a fence-start line and
\* a fence-end line, with or without prose around, is normalized to the result of
\* the text alone.
C7_FenceTransparent ==
  Replied =>
    \A style \in FenceStyles, J \in ObjectTexts :
      (outcome.text = Wrap(style, J) /\ json_loads(J).ok /\ json_loads(J).val.t = "obj")
        => result = Normalize(J, request.pose)

\* the reply could not be decoded after fence and brace extraction
ReplyUnparseable == Replied /\ ~Decoded.ok

\* C8 as stated: an unparseable reply to POST /analyze is answered 500, success
\* false, with a raw_response that is not empty, at most 1000 characters long and a
\* prefix of the text that failed to parse.
C8_RawResponseNonEmpty ==
  (ReplyUnparseable /\ request.endpoint = "analyze") =>
    /\ response.status = 500
    /\ response.body.success = FALSE
    /\ "raw_response" \in DOMAIN response.body
    /\ response.body.raw_response.t = "str"
    /\ Len(response.body.raw_response.v) > 0
    /\ Len(response.body.raw_response.v) <= 1000
    /\ response.body.raw_response.v =
         SubSeq(Scrape(outcome.text), 1, Len(response.body.raw_response.v))

\* C8 as amended: raw_response is a prefix of the text that failed to parse, at
\* most 1000 characters long, and is not empty unless that text is empty.
C8_RawResponsePrefix ==
  (ReplyUnparseable /\ request.endpoint = "analyze") =>
    /\ response.status = 500
    /\ response.body.success = FALSE
    /\ "raw_response" \in DOMAIN response.body
    /\ response.body.raw_response.t = "str"
    /\ Len(Scrape(outcome.text)) > 0 => Len(response.body.raw_response.v) > 0
    /\ Len(response.body.raw_response.v) <= 1000
    /\ response.body.raw_response.v =
         SubSeq(Scrape(outcome.text), 1, Len(response.body.raw_response.v))

\* an unparseable text longer than the cap has been answered with its first 1000
\* characters
C8_Witness ==
  /\ ReplyUnparseable /\ request.endpoint = "analyze"
  /\ Len(Scrape(outcome.text)) > 1000
  /\ response.status = 500
  /\ Len(response.body.raw_response.v) = 1000

\* the body has no media field, or an empty one
MediaMissing == request.media.t = "null" \/ IsStr(request.media, <<>>)

\* C9: a request without the media field of its endpoint (video for /analyze, image
\* for /analyze-frame), or with an empty one, is answered 400 with success false and
\* the model is never invoked for it.
C9_MissingMediaRejected ==
  (pc \in {"invoking", "done"} /\ MediaMissing) =>
    /\ pc = "done"
    /\ response.status = 400
    /\ response.body.success = FALSE
    /\ modelCalls = 0
    /\ outcome = None

\* POST /analyze-frame with an empty image has been answered 400
C9_Witness ==
  /\ pc = "done"
  /\ request.endpoint = "analyze_frame"
  /\ IsStr(request.media, <<>>)
  /\ response.status = 400
  /\ modelCalls = 0

\* the same request sent to the other endpoint
Twin(req) ==
  [req EXCEPT !.endpoint = IF req.endpoint = "analyze" THEN "analyze_frame" ELSE "analyze"]

\* C10: for the same payload, flags, pose metrics and model behaviour, the two
\* endpoints answer with the same status and the same fields (the advisory note
\* apart) in every outcome of the model call.
C10_SameContract ==
  (pc = "done" /\ modelCalls = 1) =>
    LET other == Served(Twin(request), outcome)
    IN  /\ response.status = other.status
        /\ (DOMAIN response.body) \ {"note"} = (DOMAIN other.body) \ {"note"}

\* a prompt has been handed to model.generate_content for the request
PromptSent == pc = "invoking" \/ (pc = "done" /\ modelCalls = 1)

\* the prompt holds the instruction "USER REPORTED PAIN ... The score MUST be 0"
HasPainOverride == \E i \in 1..Len(prompt) : prompt[i] = "pain_override"

\* C11: the prompt sent to the model holds the forced-pain override instruction if
\* and only if reported_pain is set in the request, with or without pose metrics,
\* while the call is outstanding and after any reply or failure of the model.
C11_PainOverrideIffFlag ==
  PromptSent => (HasPainOverride <=> request.reported_pain)

\* a request with pose metrics and reported pain has been answered after the model
\* replied, and the prompt it was sent held the override
C11_Witness ==
  /\ pc = "done" /\ modelCalls = 1 /\ outcome.kind = "text"
  /\ request.reported_pain
  /\ Truthy(request.pose)
  /\ HasPainOverride
  /\ prompt[Len(prompt)] = "pain_override"

\* the request carries its media as a non-empty base64 string and its pose metrics,
\* if any, as an object
MediaPresent ==
  /\ request.media.t = "str" /\ Len(request.media.v) > 0
  /\ request.pose.t \in {"null", "obj"}

\* C12: once a request with media present has been answered, the model has been
\* invoked exactly once for it; if that invocation raised, the answer is 500 with
\* success false and the message of the caught exception.
C12_InvokedExactlyOnce ==
  (pc = "done" /\ MediaPresent) =>
    /\ modelCalls = 1
    /\ outcome.kind = "raise" =>
         /\ response.status = 500
         /\ response.body.success = FALSE
         /\ response.body.error = outcome.err

====
